---------------------------- MODULE Spec2Model ----------------------------
(***************************************************************************)
(* A model of src/app.js (Axis website auditor and downloader): the click  *)
(* handlers, processSite and the pure helpers it calls.                    *)
(*                                                                         *)
(* Strings are sequences of one-character strings, so that URL parsing,    *)
(* file-name derivation, CSS url() scanning and zip-name sanitisation are  *)
(* computed the way the code computes them.                                *)
(***************************************************************************)
EXTENDS Integers, Sequences, FiniteSets, TLC

(***************************************************************************)
(* Characters and strings                                                  *)
(***************************************************************************)
UpperChars == <<"A","B","C","D","E","F","G","H","I","J","K","L","M",
                "N","O","P","Q","R","S","T","U","V","W","X","Y","Z">>
LowerChars == <<"a","b","c","d","e","f","g","h","i","j","k","l","m",
                "n","o","p","q","r","s","t","u","v","w","x","y","z">>
DigitChars == {"0","1","2","3","4","5","6","7","8","9"}

Range(s) == {s[i] : i \in DOMAIN s}

\* the element of a one-element set; { e(x) : x \in {d} } names the value of d
\* in e the way a const declaration does
The(S) == CHOOSE v \in S : TRUE

IsUpper(c) == c \in Range(UpperChars)
IsAlpha(c) == c \in Range(UpperChars) \cup Range(LowerChars)

\* String.prototype.toLowerCase, one character
LowerChar(c) ==
  IF IsUpper(c) THEN LowerChars[CHOOSE i \in DOMAIN UpperChars : UpperChars[i] = c]
  ELSE c

\* String.prototype.toLowerCase
ToLowerCase(s) == [i \in DOMAIN s |-> LowerChar(s[i])]

\* String.prototype.indexOf(c) + 1 for a one-character c (0 when absent)
IndexOf(s, c) ==
  IF \E i \in DOMAIN s : s[i] = c
  THEN CHOOSE i \in DOMAIN s : s[i] = c /\ \A j \in 1..(i-1) : s[j] # c
  ELSE 0

\* first position of any character of the set cs (0 when absent)
IndexOfAny(s, cs) ==
  IF \E i \in DOMAIN s : s[i] \in cs
  THEN CHOOSE i \in DOMAIN s : s[i] \in cs /\ \A j \in 1..(i-1) : s[j] \notin cs
  ELSE 0

\* String.prototype.lastIndexOf(c) + 1
LastIndexOf(s, c) ==
  IF \E i \in DOMAIN s : s[i] = c
  THEN CHOOSE i \in DOMAIN s : s[i] = c /\ \A j \in (i+1)..Len(s) : s[j] # c
  ELSE 0

From(s, i) == SubSeq(s, i, Len(s))
Upto(s, i) == SubSeq(s, 1, i)

StartsWith(s, p) == Len(s) >= Len(p) /\ SubSeq(s, 1, Len(p)) = p

\* String.prototype.split(c) for a one-character separator
RECURSIVE Split(_, _)
SplitAt(s, c, i) ==
  IF i = 0 THEN <<s>> ELSE <<Upto(s, i-1)>> \o Split(From(s, i+1), c)
Split(s, c) == The({ SplitAt(t, c, IndexOf(t, c)) : t \in {s} })

\* Array.prototype.filter(Boolean) on an array of strings
FilterBoolean(a) == SelectSeq(a, LAMBDA x : x # <<>>)

\* Array.prototype.pop(): the last element, or the empty string standing for
\* undefined (every use in the code is followed by || <default>)
Pop(a) == IF a = <<>> THEN <<>> ELSE a[Len(a)]

\* String.prototype.trim (space and line feed are the white space of the model)
WhiteSpace == {" ", "\n"}
RECURSIVE Trim(_)
Trim(s) ==
  IF s = <<>> THEN s
  ELSE IF s[1] \in WhiteSpace THEN Trim(Tail(s))
  ELSE IF s[Len(s)] \in WhiteSpace THEN Trim(Upto(s, Len(s)-1))
  ELSE s

\* a || b for strings
Or(a, b) == IF a = <<>> THEN b ELSE a

(***************************************************************************)
(* String literals of the program                                          *)
(***************************************************************************)
\* Starting fetch for 
MsgStarting == <<"S","t","a","r","t","i","n","g"," ","f","e","t","c","h"," ","f","o",
  "r"," ">>
\* fetchText failed: 
MsgFetchTextFailed == <<"f","e","t","c","h","T","e","x","t"," ","f","a","i","l","e",
  "d",":"," ">>
\* fetchBlob failed: 
MsgFetchBlobFailed == <<"f","e","t","c","h","B","l","o","b"," ","f","a","i","l","e",
  "d",":"," ">>
\*  — 
MsgDash == <<" ","--"," ">>
\* Fetching CSS: 
MsgFetchingCss == <<"F","e","t","c","h","i","n","g"," ","C","S","S",":"," ">>
\* Fetching JS: 
MsgFetchingJs == <<"F","e","t","c","h","i","n","g"," ","J","S",":"," ">>
\* Fetching image: 
MsgFetchingImage == <<"F","e","t","c","h","i","n","g"," ","i","m","a","g","e",":",
  " ">>
\* Fetched favicon: 
MsgFetchedFavicon == <<"F","e","t","c","h","e","d"," ","f","a","v","i","c","o","n",
  ":"," ">>
\* Fetched fallback favicon
MsgFetchedFallback == <<"F","e","t","c","h","e","d"," ","f","a","l","l","b","a","c",
  "k"," ","f","a","v","i","c","o","n">>
\* Packaging complete: 
MsgPackaging == <<"P","a","c","k","a","g","i","n","g"," ","c","o","m","p","l","e","t",
  "e",":"," ">>
\* HTTP 404
MsgHttpError == <<"H","T","T","P"," ","4","0","4">>
\* 12:00:00
TimeString == <<"1","2",":","0","0",":","0","0">>
\* website/
WebsiteDir == <<"w","e","b","s","i","t","e","/">>
\* css/
CssDir == <<"c","s","s","/">>
\* js/
JsDir == <<"j","s","/">>
\* images/
ImagesDir == <<"i","m","a","g","e","s","/">>
\* fonts/
FontsDir == <<"f","o","n","t","s","/">>
\* audit/
AuditDir == <<"a","u","d","i","t","/">>
\* inline-styles.css
InlineStylesName == <<"i","n","l","i","n","e","-","s","t","y","l","e","s",".","c","s",
  "s">>
\* inline-scripts.js
InlineScriptsName == <<"i","n","l","i","n","e","-","s","c","r","i","p","t","s",".",
  "j","s">>
\* index.html
IndexHtmlName == <<"i","n","d","e","x",".","h","t","m","l">>
\* report.md
ReportMdName == <<"r","e","p","o","r","t",".","m","d">>
\* report.json
ReportJsonName == <<"r","e","p","o","r","t",".","j","s","o","n">>
\* README.md
ReadmeName == <<"R","E","A","D","M","E",".","m","d">>
\* favicon.ico
FaviconName == <<"f","a","v","i","c","o","n",".","i","c","o">>
\* /favicon.ico
FaviconPath == <<"/","f","a","v","i","c","o","n",".","i","c","o">>
\* .zip
DotZip == <<".","z","i","p">>
\* site
SiteName == <<"s","i","t","e">>
\* style.css
StyleCssName == <<"s","t","y","l","e",".","c","s","s">>
\* script.js
ScriptJsName == <<"s","c","r","i","p","t",".","j","s">>
\* asset
AssetName == <<"a","s","s","e","t">>
\* index
IndexName == <<"i","n","d","e","x">>
\* http://
HttpPrefix == <<"h","t","t","p",":","/","/">>
\* https://
HttpsPrefix == <<"h","t","t","p","s",":","/","/">>
\* css/inline-styles.css
HrefInlineStyles == <<"c","s","s","/","i","n","l","i","n","e","-","s","t","y","l","e",
  "s",".","c","s","s">>
\* js/inline-scripts.js
HrefInlineScripts == <<"j","s","/","i","n","l","i","n","e","-","s","c","r","i","p",
  "t","s",".","j","s">>
\* \n\n
BlankLine == <<"\n","\n">>
\* url(
UrlOpen == <<"u","r","l","(">>

(***************************************************************************)
(* new URL(...): the part of the WHATWG URL parser that the inputs of the  *)
(* model exercise (scheme detection, special-scheme authority, host        *)
(* lower-casing, default-port removal, path/query/fragment split).         *)
(***************************************************************************)
SchemeChars == Range(UpperChars) \cup Range(LowerChars) \cup DigitChars \cup {"+","-","."}
SpecialSchemes == { <<"h","t","t","p">>, <<"h","t","t","p","s">>,
                    <<"f","t","p">>, <<"w","s">>, <<"w","s","s">> }
\* forbidden host code points of the URL standard (printable ones)
ForbiddenHostChars == {" ","#","/",":","<",">","?","@","[","\\","]","^","|","%"}
Slashes == {"/","\\"}

\* position of the colon ending a scheme, 0 when the string starts with none
SchemeEnd(s) ==
  LET i == IndexOf(s, ":")
  IN  IF s # <<>> /\ IsAlpha(s[1]) /\ i > 1
         /\ \A j \in 1..(i-1) : s[j] \in SchemeChars
      THEN i ELSE 0

DefaultPort(scheme) ==
  IF scheme = <<"h","t","t","p">> \/ scheme = <<"w","s">> THEN <<"8","0">>
  ELSE IF scheme = <<"h","t","t","p","s">> \/ scheme = <<"w","s","s">> THEN <<"4","4","3">>
  ELSE IF scheme = <<"f","t","p">> THEN <<"2","1">>
  ELSE <<>>

RECURSIVE StripLeading(_, _)
StripLeading(s, cs) ==
  IF s # <<>> /\ s[1] \in cs THEN StripLeading(Tail(s), cs) ELSE s

FailedUrl == [ok |-> FALSE, scheme |-> <<>>, hostname |-> <<>>, port |-> <<>>,
              pathname |-> <<>>, search |-> <<>>, hash |-> <<>>, opaque |-> FALSE]

\* path, query and fragment of the text that follows the authority
PathOf(t) ==
  LET e == IndexOfAny(t, {"?","#"})
      p == IF e = 0 THEN t ELSE Upto(t, e-1)
  IN  [c \in DOMAIN p |-> IF p[c] = "\\" THEN "/" ELSE p[c]]
SearchOf(t) ==
  LET q == IndexOf(t, "?")
      h == IndexOf(t, "#")
  IN  IF q = 0 \/ (h # 0 /\ h < q) THEN <<>>
      ELSE IF h = 0 THEN From(t, q) ELSE SubSeq(t, q, h-1)
HashOf(t) ==
  LET h == IndexOf(t, "#") IN IF h = 0 THEN <<>> ELSE From(t, h)

\* the record of a special-scheme URL, or failure on a bad host or port
UrlOfParts(scheme, host, prt, path, tail) ==
  IF host = <<>> \/ (\E i \in DOMAIN host : host[i] \in ForbiddenHostChars)
     \/ (\E i \in DOMAIN prt : prt[i] \notin DigitChars) \/ Len(prt) > 5
  THEN FailedUrl
  ELSE [ok |-> TRUE, scheme |-> scheme, hostname |-> ToLowerCase(host),
        port |-> IF prt = DefaultPort(scheme) THEN <<>> ELSE prt,
        pathname |-> IF path = <<>> THEN <<"/">> ELSE path,
        search |-> SearchOf(tail), hash |-> HashOf(tail), opaque |-> FALSE]

\* the port as a number without leading zeros; hp is host:port, cp the colon
PortDigits(hp, cp, prt0) ==
  IF cp # 0 /\ cp < Len(hp) /\ prt0 = <<>> THEN <<"0">> ELSE prt0
PortOf(hp, cp) ==
  PortDigits(hp, cp, IF cp = 0 THEN <<>> ELSE StripLeading(From(hp, cp+1), {"0"}))

\* host and port are split at the last colon
ParseHostPort(scheme, hp, cp, tail) ==
  The({ UrlOfParts(scheme, host, prt, path, tail) :
          host \in {IF cp = 0 THEN hp ELSE Upto(hp, cp-1)},
          prt \in {PortOf(hp, cp)},
          path \in {PathOf(tail)} })

\* credentials end at the last "@" of the authority
ParseAuthority(scheme, auth, tail) ==
  The({ ParseHostPort(scheme, hp, LastIndexOf(hp, ":"), tail) :
          hp \in {From(auth, LastIndexOf(auth, "@") + 1)} })

\* the authority ends at the first of / \ ? #
SplitAuthority(scheme, r2, ae) ==
  The({ ParseAuthority(scheme, auth, tail) :
          auth \in {IF ae = 0 THEN r2 ELSE Upto(r2, ae-1)},
          tail \in {IF ae = 0 THEN <<>> ELSE From(r2, ae)} })

\* what follows the scheme: an opaque path, or slashes and an authority
ParseAfterScheme(scheme, rest) ==
  IF scheme \notin SpecialSchemes
  THEN [ok |-> TRUE, scheme |-> scheme, hostname |-> <<>>, port |-> <<>>,
        pathname |-> PathOf(rest), search |-> SearchOf(rest), hash |-> HashOf(rest),
        opaque |-> TRUE]
  ELSE The({ SplitAuthority(scheme, r2, IndexOfAny(r2, {"/","\\","?","#"})) :
               r2 \in {StripLeading(rest, Slashes)} })

ParseScheme(s, se) ==
  IF se = 0 THEN FailedUrl
  ELSE The({ ParseAfterScheme(scheme, rest) :
               scheme \in {ToLowerCase(Upto(s, se-1))}, rest \in {From(s, se+1)} })

\* new URL(s) with no base
ParseUrl(raw) == The({ ParseScheme(s, SchemeEnd(s)) : s \in {Trim(raw)} })

\* URL.prototype.host
HostOf(u) == IF u.port = <<>> THEN u.hostname ELSE u.hostname \o <<":">> \o u.port

\* URL.prototype.href
Href(u) ==
  IF u.opaque THEN u.scheme \o <<":">> \o u.pathname \o u.search \o u.hash
  ELSE u.scheme \o <<":","/","/">> \o HostOf(u) \o u.pathname \o u.search \o u.hash

\* the text a relative reference r stands for against the parsed base b
Origin(b) == b.scheme \o <<":","/","/">> \o HostOf(b)
Joined(b, r, origin) ==
  IF r = <<>> THEN origin \o b.pathname \o b.search
  ELSE IF Len(r) >= 2 /\ r[1] \in Slashes /\ r[2] \in Slashes
       THEN b.scheme \o <<":">> \o r
  ELSE IF r[1] \in Slashes THEN origin \o r
  ELSE IF r[1] = "?" THEN origin \o b.pathname \o r
  ELSE IF r[1] = "#" THEN origin \o b.pathname \o b.search \o r
  ELSE origin \o Upto(b.pathname, LastIndexOf(b.pathname, "/")) \o r

\* new URL(relative, base).href, or "throws"
Threw == [threw |-> TRUE]
HrefOrThrew(target) == IF ~target.ok THEN Threw ELSE Href(target)
ResolveAgainst(b, r, absolute) ==
  IF ~b.ok THEN Threw
  ELSE IF ~absolute /\ b.opaque THEN Threw
  ELSE The({ HrefOrThrew(target) :
               target \in {ParseUrl(IF absolute THEN r ELSE Joined(b, r, Origin(b)))} })
NewUrlHref(relative, base) ==
  The({ ResolveAgainst(b, r, SchemeEnd(r) > 0) :
          b \in {ParseUrl(base)}, r \in {Trim(relative)} })

\* function resolveUrl(base, relative)
OrRelative(h, relative) == IF h = Threw THEN relative ELSE h
resolveUrl(base, relative) ==
  The({ OrRelative(h, relative) : h \in {NewUrlHref(relative, base)} })

\* lines 83-84: the last non-empty segment of the path, up to a "?"
NameOf(pathname) ==
  Split(Or(Pop(FilterBoolean(Split(pathname, "/"))), IndexName), "?")[1]
\* lines 85-89: a name without a dot gets what follows the last dot of the path
WithExt(name, ext) ==
  IF IndexOf(name, ".") = 0 /\ ext # <<>> /\ Len(ext) <= 5
  THEN name \o <<".">> \o ext
  ELSE name
FileNameOfPath(pathname) ==
  The({ Or(WithExt(name, ext), AssetName) :
          name \in {NameOf(pathname)},
          ext \in {ToLowerCase(Pop(Split(pathname, ".")))} })
FileNameOf(u) == IF ~u.ok THEN AssetName ELSE FileNameOfPath(u.pathname)

\* function fileNameFromUrl(url)
fileNameFromUrl(url) == The({ FileNameOf(u) : u \in {ParseUrl(url)} })

(***************************************************************************)
(* Pure helpers of app.js                                                  *)
(***************************************************************************)
QuoteChars == {"'", "\""}
UrlStopChars == {"'", "\"", ")"}

\* one attempt of /url\((?:'|")?([^'")]+)(?:'|")?\)/ at position i of css:
\* [ok, url, next], next being the regex's lastIndex + 1 after a match;
\* j is where the captured text starts, e where it ends, k where ")" must be
NoMatch(i) == [ok |-> FALSE, url |-> <<>>, next |-> i + 1]
MatchClose(css, i, j, e, k) ==
  IF SubSeq(css, i, i+3) = UrlOpen /\ e > j /\ k <= Len(css) /\ css[k] = ")"
  THEN [ok |-> TRUE, url |-> SubSeq(css, j, e-1), next |-> k + 1]
  ELSE NoMatch(i)
MatchQuote(css, i, j, e) ==
  The({ MatchClose(css, i, j, e, k) :
          k \in {IF e <= Len(css) /\ css[e] \in QuoteChars THEN e + 1 ELSE e} })
MatchBody(css, i, j, st) ==
  The({ MatchQuote(css, i, j, e) : e \in {IF st = 0 THEN Len(css) + 1 ELSE j + st - 1} })
MatchFrom(css, i, j) ==
  The({ MatchBody(css, i, j, st) : st \in {IndexOfAny(From(css, j), UrlStopChars)} })
MatchUrlAt(css, i) ==
  IF i + 3 > Len(css) THEN NoMatch(i)
  ELSE The({ MatchFrom(css, i, j) :
               j \in {IF i + 4 <= Len(css) /\ css[i+4] \in QuoteChars
                      THEN i + 5 ELSE i + 4} })

\* the loop of re.exec: the captures of the matches, left to right
RECURSIVE ScanUrls(_, _)
ScanNext(css, m) ==
  IF m.ok THEN <<m.url>> \o ScanUrls(css, m.next) ELSE ScanUrls(css, m.next)
ScanUrls(css, i) ==
  IF i > Len(css) THEN <<>> ELSE The({ ScanNext(css, m) : m \in {MatchUrlAt(css, i)} })

\* function extractUrlsFromCss(css)
extractUrlsFromCss(css) == The({ ScanUrls(text, 1) : text \in {css} })

\* (assetUrl.split('.').pop() || '').split('?')[0].toLowerCase()
ExtOf(assetUrl) == ToLowerCase(Split(Pop(Split(assetUrl, ".")), "?")[1])

FontExts == { <<"w","o","f","f">>, <<"w","o","f","f","2">>, <<"t","t","f">>,
              <<"o","t","f">>, <<"e","o","t">> }
ImageExts == { <<"p","n","g">>, <<"j","p","g">>, <<"j","p","e","g">>, <<"g","i","f">>,
               <<"s","v","g">>, <<"w","e","b","p">>, <<"a","v","i","f">> }

\* fullUrl.replace(/^https?:\/\//,'')
StripHttp(s) ==
  IF StartsWith(s, HttpPrefix) THEN From(s, Len(HttpPrefix) + 1)
  ELSE IF StartsWith(s, HttpsPrefix) THEN From(s, Len(HttpsPrefix) + 1)
  ELSE s

\* a variant of DomainOf that reads URL.host (the port kept) instead of hostname
DomainOfHost(u, fullUrl) ==
  IF u.ok THEN HostOf(u) ELSE Split(StripHttp(fullUrl), "/")[1]

\* function domainFromUrl(fullUrl)
DomainOf(u, fullUrl) ==
  IF u.ok THEN u.hostname ELSE Split(StripHttp(fullUrl), "/")[1]
domainFromUrl(fullUrl) == The({ DomainOf(u, fullUrl) : u \in {ParseUrl(fullUrl)} })

\* the character class of /[:\/\\?%*\|"<> ]+/g
UnsafeChars == {":", "/", "\\", "?", "%", "*", "|", "\"", "<", ">", " "}

\* domainName.replace(/[:\/\\?%*\|"<> ]+/g,'-')
RECURSIVE ReplaceUnsafe(_)
ReplaceUnsafe(s) ==
  IF s = <<>> THEN <<>>
  ELSE IF s[1] \in UnsafeChars THEN <<"-">> \o ReplaceUnsafe(StripLeading(s, UnsafeChars))
  ELSE <<s[1]>> \o ReplaceUnsafe(Tail(s))

\* const zipName = `${safeName}.zip` of processSite
ZipNameOf(runUrl) ==
  The({ ReplaceUnsafe(Or(d, SiteName)) \o DotZip : d \in {domainFromUrl(runUrl)} })

LOG_MAX == 2000

\* a variant of LogValue that keeps the end of the text when it overflows
LogValueKeepsEnd(old, msg) ==
  LET v == TimeString \o MsgDash \o msg \o <<"\n">> \o old
  IN  IF Len(v) > LOG_MAX THEN SubSeq(v, Len(v) - LOG_MAX + 1, Len(v)) ELSE v

\* function log(msg), as a function of the log area's old value; the time
\* string of toLocaleTimeString is a fixed eight-character string
LogValue(old, msg) ==
  LET v == TimeString \o MsgDash \o msg \o <<"\n">> \o old
  IN  IF Len(v) > LOG_MAX THEN SubSeq(v, 1, LOG_MAX) ELSE v

(***************************************************************************)
(* Documents, responses, archives                                          *)
(***************************************************************************)
\* An element that processSite looks at.  kind stands for the selector it
\* matches: "style", "inlineScript" (script without src), "stylesheet"
\* (link[rel="stylesheet"]), "script" (script[src]), "img", "icon"
\* (link[rel~="icon"]), "preload" (link[rel="preload"][as="font"]).
\* url is the href/src attribute, text the text content.
El(id, kind, u, text) == [id |-> id, kind |-> kind, url |-> u, text |-> text]

NoDoc == [head |-> <<>>, body |-> <<>>]

\* the elements of a document, in document order
AllEls(d) == d.head \o d.body

\* Array.from(doc.querySelectorAll(...)): the ids of the elements of the kinds
QueryAll(d, kinds) ==
  LET m == SelectSeq(AllEls(d), LAMBDA e : e.kind \in kinds)
  IN  [i \in DOMAIN m |-> m[i].id]

ElOf(d, id) == CHOOSE e \in Range(AllEls(d)) : e.id = id

\* el.getAttribute(name) || el.href: an element without the attribute reads ''
AttrOf(d, id) == ElOf(d, id).url

\* el.setAttribute(name, v)
SetAttr(d, id, v) ==
  LET upd(s) == [i \in DOMAIN s |-> IF s[i].id = id THEN [s[i] EXCEPT !.url = v] ELSE s[i]]
  IN  [head |-> upd(d.head), body |-> upd(d.body)]

\* el.remove() for every element of the kinds
RemoveKinds(d, kinds) ==
  [head |-> SelectSeq(d.head, LAMBDA e : e.kind \notin kinds),
   body |-> SelectSeq(d.body, LAMBDA e : e.kind \notin kinds)]

\* s.textContent + '\n\n' over the elements of the kinds, in document order
RECURSIVE JoinTexts(_)
JoinTexts(els) ==
  IF els = <<>> THEN <<>> ELSE Head(els).text \o BlankLine \o JoinTexts(Tail(els))

InlineText(d, kinds) == JoinTexts(SelectSeq(AllEls(d), LAMBDA e : e.kind \in kinds))

\* JSZip: the files of the archive, path -> content (folder entries left out)
EmptyZip == <<>>
\* folder.file(name, content), folder being the folder's path from the root
ZipFile(z, folder, name, content) == ((WebsiteDir \o folder \o name) :> content) @@ z

\* the response of one fetch(): ok is res.ok (false also stands for a rejected
\* fetch), body the payload; page is the document DOMParser builds from it
FailedResponse == [ok |-> FALSE, body |-> <<>>, page |-> NoDoc]
TextResponse(body) == [ok |-> TRUE, body |-> body, page |-> NoDoc]
HtmlResponse(page) == [ok |-> TRUE, body |-> <<"<">>, page |-> page]

\* what fetchText returns: the text, '' after a failure
fetchText(r) == IF r.ok THEN r.body ELSE <<>>
\* what fetchBlob returns: a Blob, null after a failure
NullBlob == [isNull |-> TRUE, bytes |-> <<>>]
fetchBlob(r) == IF r.ok THEN [isNull |-> FALSE, bytes |-> r.body] ELSE NullBlob

\* the log area after fetchText(u) / fetchBlob(u) got response r
LogFetchText(old, u, r) ==
  IF r.ok THEN old ELSE LogValue(old, MsgFetchTextFailed \o u \o MsgDash \o MsgHttpError)
LogFetchBlob(old, u, r) ==
  IF r.ok THEN old ELSE LogValue(old, MsgFetchBlobFailed \o u \o MsgDash \o MsgHttpError)

(***************************************************************************)
(* Inputs: the URLs typed into the page and what the network holds         *)
(***************************************************************************)
\* https://Example.com:8080/x
UrlA == <<"h","t","t","p","s",":","/","/","E","x","a","m","p","l","e",".","c","o","m",
  ":","8","0","8","0","/","x">>
\* http://a: b/p
UrlB == <<"h","t","t","p",":","/","/","a",":"," ","b","/","p">>
\* http://a*b.io/d/
UrlC == <<"h","t","t","p",":","/","/","a","*","b",".","i","o","/","d","/">>
\* localhost:3000
UrlD == <<"l","o","c","a","l","h","o","s","t",":","3","0","0","0">>
\* a{b:url(/f.woff)}c{d:url(i.png)}
CssInlineA == <<"a","{","b",":","u","r","l","(","/","f",".","w","o","f","f",")","}",
  "c","{","d",":","u","r","l","(","i",".","p","n","g",")","}">>
\*  \n
CssBlank == <<" ","\n">>
\* x()
JsInline == <<"x","(",")">>
\* a{b:url(/i.png)}
BodyImage == <<"a","{","b",":","u","r","l","(","/","i",".","p","n","g",")","}">>
\* url('g.ttf')url("t.txt")
BodyFont == <<"u","r","l","(","'","g",".","t","t","f","'",")","u","r","l","(","\"",
  "t",".","t","x","t","\"",")">>
\* i.png
HrefImg == <<"i",".","p","n","g">>
\* s.css
HrefCss == <<"s",".","c","s","s">>
\* /fav.ico
HrefIcon == <<"/","f","a","v",".","i","c","o">>
\* f.woff2
HrefPreload == <<"f",".","w","o","f","f","2">>
\* /a.b/c
HrefScript == <<"/","a",".","b","/","c">>
\* https://x.io/logo
HrefLogo == <<"h","t","t","p","s",":","/","/","x",".","i","o","/","l","o","g","o">>

\* what the network holds at each URL that can be typed: the parsed page
PageA == [head |-> << El("e1", "style", <<>>, CssInlineA) >>,
          body |-> << El("e2", "img", HrefImg, <<>>), El("e3", "img", HrefImg, <<>>) >>]
PageB == [head |-> << El("e1", "style", <<>>, CssBlank) >>,
          body |-> << El("e2", "img", HrefLogo, <<>>) >>]
PageC == [head |-> << El("e1", "stylesheet", HrefCss, <<>>), El("e2", "icon", HrefIcon, <<>>),
                      El("e3", "preload", HrefPreload, <<>>) >>,
          body |-> << El("e4", "inlineScript", <<>>, JsInline),
                      El("e5", "script", HrefScript, <<>>) >>]

Urls == {UrlA, UrlB, UrlC, UrlD}
SiteOf(u) == IF u \in {UrlA, UrlD} THEN PageA ELSE IF u = UrlB THEN PageB ELSE PageC

\* the answers the network may give to the fetch of the root document
RootAnswers(u) == {FailedResponse, TextResponse(<<>>), HtmlResponse(SiteOf(u))}
\* ... and to the fetch of an asset, as text or as a blob
AssetAnswers(method) ==
  IF method = "text" THEN {FailedResponse, TextResponse(BodyImage), TextResponse(BodyFont)}
  ELSE {FailedResponse, TextResponse(BodyImage)}

\* Bounds of the model
MaxScans == 2
MaxClock == 1
MaxCallbacks == 2
\* metadata.percent values the zip serializer may report
Percents == {1, 4, 100}

(***************************************************************************)
(* State                                                                   *)
(***************************************************************************)
VARIABLES
  pc,               \* where processSite stands ("idle": no run in progress)
  url,              \* processSite's argument
  doc,              \* the document built by DOMParser, mutated in place
  zip,              \* the files of the JSZip instance
  combinedCSS, combinedJS, metaInfo,
  els,              \* the elements left in the loop in progress
  cur,              \* the element of the iteration in progress and its resolved URL
  cssUrls,          \* the url() tokens left in the loop in progress
  finalHTML, scanResult,
  inflight,         \* the fetch() awaited
  progress, progressShown, statusText, logArea, timeTaken, htmlPreview, reportEl,
  lastZipBlob, lastDomainName, downloadDisabled,
  saved,            \* what saveAs was last called with
  returned,         \* what the last call of processSite returned
  t0, clock,
  scans,            \* number of scans started
  det,              \* environment: the network answers a URL the same way every time
  memo,             \* environment (det only): the answers given so far
  fetchLog,         \* history: the fetches of the run, in issue order
  refs,             \* history: per element handled by the run, what became of it
  statuses,         \* history: the status texts of the run
  percent, callbacks, \* history: last metadata.percent reported, number of reports
  prev,             \* history (det only): url and archive of each completed run
  runId,            \* which scan the run in the variables above is (1 = first click)
  other,            \* the other run in progress, waiting at one of its awaits
  arg, result       \* argument and value of the helper function called on its own

runVars == <<url, doc, zip, combinedCSS, combinedJS, metaInfo, els, cur, cssUrls,
             finalHTML, scanResult, t0>>
uiVars  == <<progress, progressShown, statusText, logArea, timeTaken, htmlPreview,
             reportEl>>
outVars == <<lastZipBlob, lastDomainName, downloadDisabled, saved, returned>>
envVars == <<clock, scans, det, memo>>
histVars == <<fetchLog, refs, statuses, percent, callbacks, prev>>
offVars == <<other, arg, result>>
vars == <<pc, inflight, runVars, uiVars, outVars, envVars, histVars, runId, offVars>>

NoFetch == [url |-> <<>>, method |-> "none"]
NoBlob == [id |-> 0]
NoResult == [blob |-> NoBlob, zipName |-> <<>>, isNull |-> TRUE]
NoCur == [id |-> "", resolved |-> <<>>]
NoMeta == [cssFiles |-> <<>>, jsFiles |-> <<>>, images |-> <<>>, fonts |-> <<>>,
           inlineCssBlocks |-> 0, inlineJsBlocks |-> 0,
           inlineCssSize |-> 0, inlineJsSize |-> 0]
NoScan == [findings |-> <<>>]
NoHtml == [doctype |-> FALSE, html |-> NoDoc]
NoPrev == <<>>
NoOther == [runId |-> 0]
Status(text) == [text |-> text, arg |-> <<>>]

InitWith(d) ==
  /\ pc = "idle" /\ inflight = NoFetch
  /\ url = <<>> /\ doc = NoDoc /\ zip = EmptyZip
  /\ combinedCSS = <<>> /\ combinedJS = <<>> /\ metaInfo = NoMeta
  /\ els = <<>> /\ cur = NoCur /\ cssUrls = <<>>
  /\ finalHTML = NoHtml /\ scanResult = NoScan /\ t0 = 0
  /\ progress = 0 /\ progressShown = FALSE /\ statusText = Status("")
  /\ logArea = <<>> /\ timeTaken = 0 /\ htmlPreview = NoHtml /\ reportEl = NoScan
  /\ lastZipBlob = NoBlob /\ lastDomainName = <<>> /\ downloadDisabled = TRUE
  /\ saved = NoResult /\ returned = NoResult
  /\ clock = 0 /\ scans = 0 /\ det = d /\ memo = <<>>
  /\ fetchLog = <<>> /\ refs = <<>> /\ statuses = <<>>
  /\ percent = 0 /\ callbacks = 0 /\ prev = NoPrev
  /\ runId = 0 /\ other = NoOther /\ arg = <<>> /\ result = <<>>

Init == InitWith(FALSE)
InitDet == InitWith(TRUE)

(***************************************************************************)
(* fetch(): issuing a request and receiving its response                   *)
(***************************************************************************)
\* await fetch(PROXY + encodeURIComponent(u)) is reached
Issue(u, method) ==
  /\ inflight' = [url |-> u, method |-> method]
  /\ fetchLog' = Append(fetchLog, [url |-> u, method |-> method])

Answers ==
  IF det /\ inflight.url \in DOMAIN memo THEN {memo[inflight.url]}
  ELSE IF pc = "awaitHtml" THEN RootAnswers(inflight.url)
  ELSE AssetAnswers(inflight.method)

\* the response r arrives
Receive(r) ==
  /\ inflight # NoFetch
  /\ r \in Answers
  /\ inflight' = NoFetch
  /\ memo' = IF det THEN (inflight.url :> r) @@ memo ELSE memo

\* history: what became of element id
Ref(id, kind, orig, resolved, ok, path) ==
  [id |-> id, kind |-> kind, orig |-> orig, resolved |-> resolved, ok |-> ok, path |-> path]

(***************************************************************************)
(* runHeuristicScan.  The documents of the model hold no title, meta, h1,  *)
(* form or anchor element and no alt attribute, which fixes the findings   *)
(* that depend on them; now is the value of new Date().                    *)
(***************************************************************************)
Finding(level, text, n) == [level |-> level, text |-> text, n |-> n]
If(c, f) == IF c THEN <<f>> ELSE <<>>

runHeuristicScan(d, domain, meta, now) ==
  LET imgs == Len(QueryAll(d, {"img"}))
      totalAssets == Len(meta.cssFiles) + Len(meta.jsFiles) + Len(meta.images)
                     + Len(meta.fonts)
      findings ==
        << Finding("warn", "Missing <title> tag", 0),
           Finding("warn", "Missing meta description", 0),
           Finding("warn", "Missing viewport meta", 0),
           Finding("warn", "Missing html lang attribute", 0),
           Finding("info", "No charset meta tag; default will be used", 0) >>
        \o If(imgs > 0, Finding("warn", "image(s) missing alt attribute", imgs))
        \o If(imgs = 0, Finding("ok", "All images have alt text (or none present).", 0))
        \o << Finding("warn", "No H1 found", 0) >>
        \o If(meta.inlineCssBlocks > 0,
              Finding("info", "inline <style> block(s)", meta.inlineCssBlocks))
        \o If(meta.inlineJsBlocks > 0,
              Finding("info", "inline <script> block(s)", meta.inlineJsBlocks))
        \o << Finding(IF totalAssets > 40 THEN "warn" ELSE "ok",
                      "external assets detected", totalAssets),
              Finding("ok", "Forms appear labeled (if any).", 0) >>
        \o If(meta.inlineCssSize > 20000, Finding("warn", "Large inline CSS (>20KB)", 0))
        \o If(meta.inlineJsSize > 50000, Finding("warn", "Large inline JS (>50KB)", 0))
  IN  [images |-> Len(meta.images), css |-> Len(meta.cssFiles), js |-> Len(meta.jsFiles),
       fonts |-> Len(meta.fonts), inlineCssBlocks |-> meta.inlineCssBlocks,
       inlineJsBlocks |-> meta.inlineJsBlocks, findings |-> findings,
       mdReport |-> [domain |-> domain, scanDate |-> now, assets |-> totalAssets,
                     findings |-> findings]]

(***************************************************************************)
(* The click handlers and processSite.  A step of the program runs from    *)
(* one await (or one write of the progress value) to the next.             *)
(***************************************************************************)
SetStatus(text) ==
  /\ statusText' = Status(text)
  /\ statuses' = Append(statuses, text)

\* scanBtn click (lines 492-509) and processSite up to its first await: the
\* handler tests nothing but the URL field, and the run it starts takes the
\* place of the run in the variables
StartRun(u) ==
  /\ scans < MaxScans
  /\ u # <<>>
  /\ downloadDisabled' = TRUE
  /\ reportEl' = NoScan /\ htmlPreview' = NoHtml /\ timeTaken' = 0
  /\ url' = u /\ t0' = clock
  /\ statusText' = Status("Fetching HTML...") /\ statuses' = <<"Fetching HTML...">>
  /\ progressShown' = TRUE /\ progress' = 5
  /\ logArea' = LogValue(<<>>, MsgStarting \o u)
  /\ inflight' = [url |-> u, method |-> "text"]
  /\ fetchLog' = << [url |-> u, method |-> "text"] >>
  /\ pc' = "awaitHtml"
  /\ scans' = scans + 1 /\ runId' = scans + 1
  /\ doc' = NoDoc /\ zip' = EmptyZip /\ combinedCSS' = <<>> /\ combinedJS' = <<>>
  /\ metaInfo' = NoMeta /\ els' = <<>> /\ cur' = NoCur /\ cssUrls' = <<>>
  /\ finalHTML' = NoHtml /\ scanResult' = NoScan
  /\ refs' = <<>> /\ percent' = 0 /\ callbacks' = 0
  /\ UNCHANGED <<arg, result,
                 lastZipBlob, lastDomainName, saved, returned, clock, det, memo, prev>>

\* a click that comes while no run is in progress
ScanClick(u) ==
  /\ pc = "idle"
  /\ StartRun(u)
  /\ UNCHANGED other

\* the scan button is clicked with some URL in the input field
AnyScan == \E u \in Urls : ScanClick(u)
\* ... for the first time, and again without editing the field
FirstScan == scans = 0 /\ \E u \in Urls : ScanClick(u)
Rescan == scans > 0 /\ ScanClick(url)

\* downloadBtn click (lines 518-522); a disabled button dispatches no click
DownloadClick ==
  /\ ~downloadDisabled
  /\ lastZipBlob # NoBlob /\ lastDomainName # <<>>
  /\ saved' = [blob |-> lastZipBlob, zipName |-> lastDomainName, isNull |-> FALSE]
  /\ UNCHANGED <<runId, offVars,
                 pc, inflight, runVars, uiVars, lastZipBlob, lastDomainName,
                 downloadDisabled, returned, envVars, histVars>>

\* time passes while the program waits
AwaitPcs == {"awaitHtml", "awaitCss", "awaitCssFont", "awaitCssImage", "awaitJs",
             "awaitImg", "awaitIcon", "awaitFavicon", "awaitPreload",
             "awaitInlineFont", "zipping"}
Tick ==
  /\ pc \in AwaitPcs \cup {"idle"}
  /\ clock < MaxClock
  /\ clock' = clock + 1
  /\ UNCHANGED <<runId, offVars,
                 pc, inflight, runVars, uiVars, outVars, scans, det, memo, histVars>>

\* a variant of HtmlFailed without the return: the run goes on with no document
HtmlFailedContinues ==
  /\ pc = "awaitHtml"
  /\ \E r \in Answers :
       /\ Receive(r)
       /\ fetchText(r) = <<>>
       /\ logArea' = LogFetchText(logArea, url, r)
  /\ SetStatus("Failed to fetch HTML. Check URL or proxy.")
  /\ progressShown' = FALSE
  /\ pc' = "extract"
  /\ UNCHANGED <<runId, offVars,
                 runVars, progress, timeTaken, htmlPreview, reportEl, outVars, clock,
                 scans, det, fetchLog, refs, percent, callbacks, prev>>

\* lines 219-224: the root document could not be fetched
HtmlFailed ==
  /\ pc = "awaitHtml"
  /\ \E r \in Answers :
       /\ Receive(r)
       /\ fetchText(r) = <<>>
       /\ logArea' = LogFetchText(logArea, url, r)
  /\ SetStatus("Failed to fetch HTML. Check URL or proxy.")
  /\ progressShown' = FALSE
  /\ returned' = NoResult
  /\ pc' = "idle"
  /\ UNCHANGED <<runId, offVars,
                 runVars, progress, timeTaken, htmlPreview, reportEl, lastZipBlob,
                 lastDomainName, downloadDisabled, saved, clock, scans, det,
                 fetchLog, refs, percent, callbacks, prev>>

\* lines 219-239: the root document arrived; parse it, prepare the zip
HtmlFetched ==
  /\ pc = "awaitHtml"
  /\ \E r \in Answers :
       /\ Receive(r)
       /\ fetchText(r) # <<>>
       /\ doc' = r.page
  /\ progress' = 15
  /\ SetStatus("Parsing HTML...")
  /\ zip' = EmptyZip
  /\ pc' = "extract"
  /\ UNCHANGED <<runId, offVars,
                 url, combinedCSS, combinedJS, metaInfo, els, cur, cssUrls, finalHTML,
                 scanResult, t0, progressShown, logArea, timeTaken, htmlPreview,
                 reportEl, outVars, clock, scans, det, fetchLog, refs, percent,
                 callbacks, prev>>

SynthLink == El("link", "stylesheet", HrefInlineStyles, <<>>)
SynthScript == El("script", "script", HrefInlineScripts, <<>>)

\* lines 241-273: collect the inline code, synthesize the combined files
ExtractInline ==
  /\ pc = "extract"
  /\ SetStatus("Extracting inline CSS/JS...")
  /\ progress' = 20
  /\ LET css == InlineText(doc, {"style"})
         js  == InlineText(doc, {"inlineScript"})
         d1  == RemoveKinds(doc, {"style", "inlineScript"})
         d2  == IF Trim(css) # <<>> THEN [d1 EXCEPT !.head = Append(@, SynthLink)] ELSE d1
         d3  == IF Trim(js) # <<>> THEN [d2 EXCEPT !.body = Append(@, SynthScript)] ELSE d2
         z1  == IF Trim(css) # <<>> THEN ZipFile(zip, CssDir, InlineStylesName, css) ELSE zip
         z2  == IF Trim(js) # <<>> THEN ZipFile(z1, JsDir, InlineScriptsName, js) ELSE z1
     IN  /\ combinedCSS' = css
         /\ combinedJS' = js
         /\ metaInfo' = [NoMeta EXCEPT
                           !.inlineCssBlocks = Len(QueryAll(doc, {"style"})),
                           !.inlineJsBlocks = Len(QueryAll(doc, {"inlineScript"})),
                           !.inlineCssSize = Len(css), !.inlineJsSize = Len(js)]
         /\ doc' = d3
         /\ zip' = z2
  /\ pc' = "cssStart"
  /\ UNCHANGED <<runId, offVars,
                 inflight, url, els, cur, cssUrls, finalHTML, scanResult, t0,
                 progressShown, logArea, timeTaken, htmlPreview, reportEl, outVars,
                 envVars, fetchLog, refs, percent, callbacks, prev>>

\* the frame of a step that only moves to the next phase
PhaseFrame ==
  UNCHANGED <<runId, offVars,
              inflight, url, doc, zip, combinedCSS, combinedJS, metaInfo, cur, cssUrls,
              finalHTML, scanResult, t0, progressShown, logArea, timeTaken, htmlPreview,
              reportEl, outVars, envVars, fetchLog, refs, percent, callbacks, prev>>

\* lines 275-278
CssStart ==
  /\ pc = "cssStart"
  /\ SetStatus("Fetching external CSS...")
  /\ progress' = 30
  /\ els' = QueryAll(doc, {"stylesheet"})
  /\ pc' = "cssLoop"
  /\ PhaseFrame

\* the frame of a step that issues the fetch of an element or of a url() token
IssueFrame ==
  UNCHANGED <<runId, offVars,
              url, doc, zip, combinedCSS, combinedJS, metaInfo, els, cssUrls, finalHTML,
              scanResult, t0, progress, progressShown, statusText, timeTaken,
              htmlPreview, reportEl, outVars, envVars, refs, statuses, percent,
              callbacks, prev>>

\* the frame of a step that handles the response to the fetch of an asset
ResponseFrame ==
  UNCHANGED <<runId, offVars,
              url, combinedCSS, combinedJS, cur, finalHTML, scanResult, t0, progress,
              progressShown, statusText, timeTaken, htmlPreview, reportEl, outVars,
              clock, scans, det, fetchLog, statuses, percent, callbacks, prev>>

\* metaInfo.<list>.push({url, fname})
Push(meta, list, u, fname) ==
  [meta EXCEPT ![list] = Append(@, [url |-> u, fname |-> fname])]

\* the fetch of the URL an element names is issued, with or without a log line
QuietFetch(id, resolved, method) ==
  \E u \in {resolved} :
    /\ cur' = [id |-> id, resolved |-> u]
    /\ Issue(u, method)
    /\ UNCHANGED logArea
LoggedFetch(id, resolved, method, msg) ==
  \E u \in {resolved} :
    /\ cur' = [id |-> id, resolved |-> u]
    /\ Issue(u, method)
    /\ logArea' = LogValue(logArea, msg \o u)

\* lines 279-283: the next stylesheet link
CssNext ==
  /\ pc = "cssLoop" /\ els # <<>>
  /\ LoggedFetch(Head(els), resolveUrl(url, AttrOf(doc, Head(els))), "text",
                 MsgFetchingCss)
  /\ pc' = "awaitCss"
  /\ IssueFrame

\* a variant of LocalPath that forgets the folder
LocalPathBare(folder, fname) == fname

\* the local path an element's attribute is rewritten to
LocalPath(folder, fname) == folder \o fname

\* a variant of CssArrived that, like the blob handlers, writes no file when
\* the fetch failed
CssArrivedGuarded(r, cssText, fname) ==
  /\ Receive(r)
  /\ logArea' = LogFetchText(logArea, cur.resolved, r)
  /\ zip' = IF r.ok THEN ZipFile(zip, CssDir, fname, cssText) ELSE zip
  /\ metaInfo' = Push(metaInfo, "cssFiles", cur.resolved, fname)
  /\ doc' = SetAttr(doc, cur.id, LocalPath(CssDir, fname))
  /\ cssUrls' = extractUrlsFromCss(cssText)
  /\ refs' = Append(refs, Ref(cur.id, "stylesheet", AttrOf(doc, cur.id), cur.resolved,
                              r.ok, WebsiteDir \o CssDir \o fname))

\* lines 283-290: the stylesheet's text arrived (or ''), fname is its file name
CssArrived(r, cssText, fname) ==
  /\ Receive(r)
  /\ logArea' = LogFetchText(logArea, cur.resolved, r)
  /\ zip' = ZipFile(zip, CssDir, fname, cssText)
  /\ metaInfo' = Push(metaInfo, "cssFiles", cur.resolved, fname)
  /\ doc' = SetAttr(doc, cur.id, LocalPath(CssDir, fname))
  /\ cssUrls' = extractUrlsFromCss(cssText)
  /\ refs' = Append(refs, Ref(cur.id, "stylesheet", AttrOf(doc, cur.id), cur.resolved,
                              r.ok, WebsiteDir \o CssDir \o fname))
CssResponse ==
  /\ pc = "awaitCss"
  /\ \E r \in Answers, fname \in {Or(fileNameFromUrl(cur.resolved), StyleCssName)} :
       CssArrived(r, fetchText(r), fname)
  /\ pc' = "cssUrlLoop"
  /\ UNCHANGED els
  /\ ResponseFrame

\* line 292: the asset URL of the next url() token of the stylesheet
CssAssetUrl == resolveUrl(cur.resolved, Head(cssUrls))

\* a variant of AssetKind that knows no image extension
AssetKindFontsOnly(ext) == IF ext \in FontExts THEN "font" ELSE "other"

\* lines 293-303: what the extension of an asset URL makes of it
AssetKind(ext) ==
  IF ext \in FontExts THEN "font" ELSE IF ext \in ImageExts THEN "image" ELSE "other"
KindOfUrl(assetUrl) == The({ AssetKind(ext) : ext \in {ExtOf(assetUrl)} })

\* the fetch of an asset URL of the kind is issued
FetchAssetOfKind(assetUrl, kind) ==
  \E u \in {assetUrl} :
    /\ KindOfUrl(u) = kind
    /\ Issue(u, "blob")

\* lines 294-296: a font
CssUrlFont ==
  /\ pc = "cssUrlLoop" /\ cssUrls # <<>>
  /\ FetchAssetOfKind(CssAssetUrl, "font")
  /\ pc' = "awaitCssFont"
  /\ UNCHANGED <<cur, logArea>>
  /\ IssueFrame

\* lines 298-299: an image
CssUrlImage ==
  /\ pc = "cssUrlLoop" /\ cssUrls # <<>>
  /\ FetchAssetOfKind(CssAssetUrl, "image")
  /\ pc' = "awaitCssImage"
  /\ UNCHANGED <<cur, logArea>>
  /\ IssueFrame

\* lines 301-303: any other extension
CssUrlSkip ==
  /\ pc = "cssUrlLoop" /\ cssUrls # <<>>
  /\ \E u \in {CssAssetUrl} : KindOfUrl(u) = "other"
  /\ cssUrls' = Tail(cssUrls)
  /\ UNCHANGED <<runId, offVars,
                 pc, inflight, url, doc, zip, combinedCSS, combinedJS, metaInfo, els, cur,
                 finalHTML, scanResult, t0, uiVars, outVars, envVars, histVars>>

\* if(b){ folder.file(fn, b); metaInfo.<list>.push({url: u, fname: fn}) }
StoreBlob(z, folder, fn, b) == IF b.isNull THEN z ELSE ZipFile(z, folder, fn, b)
CountBlob(meta, list, u, fn, b) == IF b.isNull THEN meta ELSE Push(meta, list, u, fn)

\* the blob b of a url() asset arrived (or null), fn is its file name
AssetArrived(r, b, fn, folder, list) ==
  /\ Receive(r)
  /\ logArea' = LogFetchBlob(logArea, inflight.url, r)
  /\ zip' = StoreBlob(zip, folder, fn, b)
  /\ metaInfo' = CountBlob(metaInfo, list, inflight.url, fn, b)

\* lines 296-297
CssFontResponse ==
  /\ pc = "awaitCssFont"
  /\ \E r \in Answers, fn \in {fileNameFromUrl(inflight.url)} :
       AssetArrived(r, fetchBlob(r), fn, FontsDir, "fonts")
  /\ cssUrls' = Tail(cssUrls)
  /\ pc' = "cssUrlLoop"
  /\ UNCHANGED <<doc, els, refs>>
  /\ ResponseFrame

\* lines 299-300
CssImageResponse ==
  /\ pc = "awaitCssImage"
  /\ \E r \in Answers, fn \in {fileNameFromUrl(inflight.url)} :
       AssetArrived(r, fetchBlob(r), fn, ImagesDir, "images")
  /\ cssUrls' = Tail(cssUrls)
  /\ pc' = "cssUrlLoop"
  /\ UNCHANGED <<doc, els, refs>>
  /\ ResponseFrame

\* the frame of a step that ends an iteration or a loop
LoopFrame ==
  UNCHANGED <<runId, offVars,
              inflight, url, doc, zip, combinedCSS, combinedJS, metaInfo, cur, finalHTML,
              scanResult, t0, uiVars, outVars, envVars, histVars>>

\* line 304: the url() tokens of the stylesheet are done; next link
CssUrlsEnd ==
  /\ pc = "cssUrlLoop" /\ cssUrls = <<>>
  /\ els' = Tail(els)
  /\ pc' = "cssLoop"
  /\ UNCHANGED cssUrls
  /\ LoopFrame

\* line 305: no stylesheet link is left
CssLoopEnd ==
  /\ pc = "cssLoop" /\ els = <<>>
  /\ pc' = "jsStart"
  /\ UNCHANGED <<els, cssUrls>>
  /\ LoopFrame

\* lines 307-310
JsStart ==
  /\ pc = "jsStart"
  /\ progress' = 55
  /\ SetStatus("Fetching external JS...")
  /\ els' = QueryAll(doc, {"script"})
  /\ pc' = "jsLoop"
  /\ PhaseFrame

\* lines 311-315: the next script with a src
JsNext ==
  /\ pc = "jsLoop" /\ els # <<>>
  /\ LoggedFetch(Head(els), resolveUrl(url, AttrOf(doc, Head(els))), "text",
                 MsgFetchingJs)
  /\ pc' = "awaitJs"
  /\ IssueFrame

\* lines 315-319: the script's text arrived (or ''), fname is its file name
JsArrived(r, jsText, fname) ==
  /\ Receive(r)
  /\ logArea' = LogFetchText(logArea, cur.resolved, r)
  /\ zip' = ZipFile(zip, JsDir, fname, jsText)
  /\ metaInfo' = Push(metaInfo, "jsFiles", cur.resolved, fname)
  /\ doc' = SetAttr(doc, cur.id, LocalPath(JsDir, fname))
  /\ refs' = Append(refs, Ref(cur.id, "script", AttrOf(doc, cur.id), cur.resolved,
                              r.ok, WebsiteDir \o JsDir \o fname))
JsResponse ==
  /\ pc = "awaitJs"
  /\ \E r \in Answers, fname \in {Or(fileNameFromUrl(cur.resolved), ScriptJsName)} :
       JsArrived(r, fetchText(r), fname)
  /\ els' = Tail(els)
  /\ pc' = "jsLoop"
  /\ UNCHANGED cssUrls
  /\ ResponseFrame

\* line 320
JsLoopEnd ==
  /\ pc = "jsLoop" /\ els = <<>>
  /\ pc' = "imgStart"
  /\ UNCHANGED <<els, cssUrls>>
  /\ LoopFrame

\* lines 322-325
ImgStart ==
  /\ pc = "imgStart"
  /\ progress' = 70
  /\ SetStatus("Fetching images...")
  /\ els' = QueryAll(doc, {"img"})
  /\ pc' = "imgLoop"
  /\ PhaseFrame

\* a variant of ImgNext that rewrites the src before the image has arrived
ImgNextRewritesFirst ==
  /\ pc = "imgLoop" /\ els # <<>>
  /\ LoggedFetch(Head(els), resolveUrl(url, AttrOf(doc, Head(els))), "blob",
                 MsgFetchingImage)
  /\ \E fn \in {fileNameFromUrl(resolveUrl(url, AttrOf(doc, Head(els))))} :
       doc' = SetAttr(doc, Head(els), LocalPath(ImagesDir, fn))
  /\ pc' = "awaitImg"
  /\ UNCHANGED <<runId, offVars, url, zip, combinedCSS, combinedJS, metaInfo, els,
                 cssUrls, finalHTML, scanResult, t0, progress, progressShown,
                 statusText, timeTaken, htmlPreview, reportEl, outVars, envVars, refs,
                 statuses, percent, callbacks, prev>>

\* lines 326-330: the next img
ImgNext ==
  /\ pc = "imgLoop" /\ els # <<>>
  /\ LoggedFetch(Head(els), resolveUrl(url, AttrOf(doc, Head(els))), "blob",
                 MsgFetchingImage)
  /\ pc' = "awaitImg"
  /\ IssueFrame

\* lines 330-339: the image arrived (or null), fn is its file name
ImgArrived(r, b, fn) ==
  /\ Receive(r)
  /\ logArea' = LogFetchBlob(logArea, cur.resolved, r)
  /\ zip' = StoreBlob(zip, ImagesDir, fn, b)
  /\ doc' = IF b.isNull THEN doc ELSE SetAttr(doc, cur.id, LocalPath(ImagesDir, fn))
  /\ metaInfo' = Push(metaInfo, "images", cur.resolved, IF b.isNull THEN <<>> ELSE fn)
  /\ refs' = Append(refs, Ref(cur.id, "img", AttrOf(doc, cur.id), cur.resolved, r.ok,
                              IF b.isNull THEN <<>> ELSE WebsiteDir \o ImagesDir \o fn))

\* a variant of ImgResponse in which a failed fetch throws: the click handler's
\* catch block (lines 510-515) ends the run
ImgResponseAborts ==
  /\ pc = "awaitImg"
  /\ \E r \in Answers, fn \in {fileNameFromUrl(cur.resolved)} :
       /\ ImgArrived(r, fetchBlob(r), fn)
       /\ pc' = IF r.ok THEN "imgLoop" ELSE "idle"
  /\ els' = Tail(els)
  /\ UNCHANGED cssUrls
  /\ ResponseFrame

ImgResponse ==
  /\ pc = "awaitImg"
  /\ \E r \in Answers, fn \in {fileNameFromUrl(cur.resolved)} :
       ImgArrived(r, fetchBlob(r), fn)
  /\ els' = Tail(els)
  /\ pc' = "imgLoop"
  /\ UNCHANGED cssUrls
  /\ ResponseFrame

\* line 340
ImgLoopEnd ==
  /\ pc = "imgLoop" /\ els = <<>>
  /\ pc' = "iconStart"
  /\ UNCHANGED <<els, cssUrls>>
  /\ LoopFrame

\* lines 342-343
IconStart ==
  /\ pc = "iconStart"
  /\ progress' = 80
  /\ SetStatus("Fetching favicons & fonts (preload)...")
  /\ pc' = "icon"
  /\ UNCHANGED els
  /\ PhaseFrame

\* doc.querySelector('link[rel~="icon"], ...'): the first icon link, if any
IconLinks == QueryAll(doc, {"icon"})

\* lines 345-349: the first icon link, when there is one
IconFetch ==
  /\ pc = "icon"
  /\ IconLinks # <<>>
  /\ QuietFetch(Head(IconLinks), resolveUrl(url, AttrOf(doc, Head(IconLinks))), "blob")
  /\ pc' = "awaitIcon"
  /\ IssueFrame

\* lines 356-359: no icon link, try /favicon.ico
FallbackFetch ==
  /\ pc = "icon"
  /\ IconLinks = <<>>
  /\ QuietFetch("", resolveUrl(url, FaviconPath), "blob")
  /\ pc' = "awaitFavicon"
  /\ IssueFrame

\* lines 349-355: the icon arrived (or null), fn is its file name
IconArrived(r, b, fn) ==
  /\ Receive(r)
  /\ zip' = StoreBlob(zip, <<>>, fn, b)
  /\ doc' = IF b.isNull THEN doc ELSE SetAttr(doc, cur.id, LocalPath(<<>>, fn))
  /\ logArea' = IF b.isNull THEN LogFetchBlob(logArea, cur.resolved, r)
                ELSE LogValue(logArea, MsgFetchedFavicon \o cur.resolved)
  /\ refs' = Append(refs, Ref(cur.id, "icon", AttrOf(doc, cur.id), cur.resolved, r.ok,
                              IF b.isNull THEN <<>> ELSE WebsiteDir \o fn))

\* lines 349-355, then line 364
IconResponse ==
  /\ pc = "awaitIcon"
  /\ \E r \in Answers, fn \in {Or(fileNameFromUrl(cur.resolved), FaviconName)} :
       IconArrived(r, fetchBlob(r), fn)
  /\ els' = QueryAll(doc, {"preload"})
  /\ pc' = "preloadLoop"
  /\ UNCHANGED <<metaInfo, cssUrls>>
  /\ ResponseFrame

\* lines 359-360: the fallback icon arrived (or null)
FaviconArrived(r, b) ==
  /\ Receive(r)
  /\ zip' = StoreBlob(zip, <<>>, FaviconName, b)
  /\ logArea' = IF b.isNull THEN LogFetchBlob(logArea, cur.resolved, r)
                ELSE LogValue(logArea, MsgFetchedFallback)

\* lines 359-360, then line 364
FaviconResponse ==
  /\ pc = "awaitFavicon"
  /\ \E r \in Answers : FaviconArrived(r, fetchBlob(r))
  /\ els' = QueryAll(doc, {"preload"})
  /\ pc' = "preloadLoop"
  /\ UNCHANGED <<doc, metaInfo, cssUrls, refs>>
  /\ ResponseFrame

\* lines 365-368: the next font preload link
PreloadNext ==
  /\ pc = "preloadLoop" /\ els # <<>>
  /\ QuietFetch(Head(els), resolveUrl(url, AttrOf(doc, Head(els))), "blob")
  /\ pc' = "awaitPreload"
  /\ IssueFrame

\* lines 368-374: the font arrived (or null), fn is its file name
PreloadArrived(r, b, fn) ==
  /\ Receive(r)
  /\ logArea' = LogFetchBlob(logArea, cur.resolved, r)
  /\ zip' = StoreBlob(zip, FontsDir, fn, b)
  /\ doc' = IF b.isNull THEN doc ELSE SetAttr(doc, cur.id, LocalPath(FontsDir, fn))
  /\ metaInfo' = CountBlob(metaInfo, "fonts", cur.resolved, fn, b)
  /\ refs' = Append(refs, Ref(cur.id, "preload", AttrOf(doc, cur.id), cur.resolved, r.ok,
                              IF b.isNull THEN <<>> ELSE WebsiteDir \o FontsDir \o fn))
PreloadResponse ==
  /\ pc = "awaitPreload"
  /\ \E r \in Answers, fn \in {fileNameFromUrl(cur.resolved)} :
       PreloadArrived(r, fetchBlob(r), fn)
  /\ els' = Tail(els)
  /\ pc' = "preloadLoop"
  /\ UNCHANGED cssUrls
  /\ ResponseFrame

\* lines 375-378: the preload links are done; the url() tokens of the inline CSS
PreloadLoopEnd ==
  /\ pc = "preloadLoop" /\ els = <<>>
  /\ cssUrls' = extractUrlsFromCss(combinedCSS)
  /\ pc' = "inlineUrlLoop"
  /\ UNCHANGED els
  /\ LoopFrame

\* line 380
InlineAssetUrl == resolveUrl(url, Head(cssUrls))

\* lines 382-383: a font named by the inline CSS
InlineUrlFont ==
  /\ pc = "inlineUrlLoop" /\ cssUrls # <<>>
  /\ FetchAssetOfKind(InlineAssetUrl, "font")
  /\ pc' = "awaitInlineFont"
  /\ UNCHANGED <<cur, logArea>>
  /\ IssueFrame

\* lines 379-386: any other url() token of the inline CSS
InlineUrlSkip ==
  /\ pc = "inlineUrlLoop" /\ cssUrls # <<>>
  /\ \E u \in {InlineAssetUrl} : KindOfUrl(u) # "font"
  /\ cssUrls' = Tail(cssUrls)
  /\ UNCHANGED <<runId, offVars,
                 pc, inflight, url, doc, zip, combinedCSS, combinedJS, metaInfo, els, cur,
                 finalHTML, scanResult, t0, uiVars, outVars, envVars, histVars>>

\* lines 383-384
InlineFontResponse ==
  /\ pc = "awaitInlineFont"
  /\ \E r \in Answers, fn \in {fileNameFromUrl(inflight.url)} :
       AssetArrived(r, fetchBlob(r), fn, FontsDir, "fonts")
  /\ cssUrls' = Tail(cssUrls)
  /\ pc' = "inlineUrlLoop"
  /\ UNCHANGED <<doc, els, refs>>
  /\ ResponseFrame

\* line 386
InlineUrlsEnd ==
  /\ pc = "inlineUrlLoop" /\ cssUrls = <<>>
  /\ pc' = "build"
  /\ UNCHANGED <<els, cssUrls>>
  /\ LoopFrame

\* a variant of Readme that also states the time of the run
ReadmeDated(u) == [template |-> "Website Project (generated)", from |-> u, date |-> clock]

\* the README of the generated project (a template around the URL)
Readme(u) == [template |-> "Website Project (generated)", from |-> u]

\* a variant of Build that appends the link to the inline styles after the
\* document was serialized
BuildLinksLate ==
  /\ pc = "build"
  /\ progress' = 90
  /\ statusText' = Status("Running AI audit...")
  /\ statuses' = statuses \o <<"Building final project files...", "Running AI audit...">>
  /\ LET html == [doctype |-> TRUE, html |-> doc]
         scan == runHeuristicScan(doc, url, metaInfo, clock)
         z1 == ZipFile(zip, <<>>, IndexHtmlName, html)
         z2 == IF Trim(combinedCSS) # <<>>
               THEN ZipFile(z1, CssDir, InlineStylesName, combinedCSS) ELSE z1
         z3 == IF Trim(combinedJS) # <<>>
               THEN ZipFile(z2, JsDir, InlineScriptsName, combinedJS) ELSE z2
         z4 == ZipFile(z3, AuditDir, ReportMdName, scan.mdReport)
         z5 == ZipFile(z4, AuditDir, ReportJsonName, scan)
     IN  /\ finalHTML' = html
         /\ scanResult' = scan
         /\ zip' = ZipFile(z5, <<>>, ReadmeName, Readme(url))
         /\ doc' = [doc EXCEPT !.head = Append(@, SynthLink)]
  /\ pc' = "package"
  /\ UNCHANGED <<runId, offVars,
                 inflight, url, combinedCSS, combinedJS, metaInfo, els, cur, cssUrls,
                 t0, progressShown, logArea, timeTaken, htmlPreview, reportEl, outVars,
                 envVars, fetchLog, refs, percent, callbacks, prev>>

\* lines 388-422: serialize the document, run the scan, write the fixed files
Build ==
  /\ pc = "build"
  /\ progress' = 90
  /\ statusText' = Status("Running AI audit...")
  /\ statuses' = statuses \o <<"Building final project files...", "Running AI audit...">>
  /\ LET html == [doctype |-> TRUE, html |-> doc]
         scan == runHeuristicScan(doc, url, metaInfo, clock)
         z1 == ZipFile(zip, <<>>, IndexHtmlName, html)
         z2 == IF Trim(combinedCSS) # <<>>
               THEN ZipFile(z1, CssDir, InlineStylesName, combinedCSS) ELSE z1
         z3 == IF Trim(combinedJS) # <<>>
               THEN ZipFile(z2, JsDir, InlineScriptsName, combinedJS) ELSE z2
         z4 == ZipFile(z3, AuditDir, ReportMdName, scan.mdReport)
         z5 == ZipFile(z4, AuditDir, ReportJsonName, scan)
     IN  /\ finalHTML' = html
         /\ scanResult' = scan
         /\ zip' = ZipFile(z5, <<>>, ReadmeName, Readme(url))
  /\ pc' = "package"
  /\ UNCHANGED <<runId, offVars,
                 inflight, url, doc, combinedCSS, combinedJS, metaInfo, els, cur, cssUrls,
                 t0, progressShown, logArea, timeTaken, htmlPreview, reportEl, outVars,
                 envVars, fetchLog, refs, percent, callbacks, prev>>

\* lines 424-428: zip.generateAsync is called
Package ==
  /\ pc = "package"
  /\ SetStatus("Packaging ZIP...")
  /\ progress' = 95
  /\ pc' = "zipping"
  /\ UNCHANGED els
  /\ PhaseFrame

\* Math.round(p / 1.25) for an integer p >= 0
RoundPercent(p) == (8 * p + 5) \div 10
Min(a, b) == IF a < b THEN a ELSE b

\* a variant of ZipProgressValue without the cap of 99
ZipProgressValueUncapped(p) == 95 + RoundPercent(p)

\* line 430: the value updateMeta gives the progress bar for metadata.percent = p
ZipProgressValue(p) == Min(95 + RoundPercent(p), 99)

\* lines 428-431: the serializer reports metadata.percent = p
ZipProgress(p) ==
  /\ pc = "zipping"
  /\ callbacks < MaxCallbacks
  /\ progress' = ZipProgressValue(p)
  /\ percent' = p
  /\ callbacks' = callbacks + 1
  /\ UNCHANGED <<runId, offVars,
                 pc, inflight, runVars, progressShown, statusText, logArea, timeTaken,
                 htmlPreview, reportEl, outVars, envVars, fetchLog, refs, statuses, prev>>

\* lines 433-451: the blob is there; publish it under zipName and finish
Publish(blob, zipName) ==
  /\ lastZipBlob' = blob
  /\ lastDomainName' = zipName
  /\ statusText' = [text |-> "Done -- project ready: ", arg |-> zipName]
  /\ statuses' = Append(statuses, "Done -- project ready: ")
  /\ logArea' = LogValue(logArea, MsgPackaging \o zipName)
  /\ returned' = [blob |-> blob, zipName |-> zipName, isNull |-> FALSE]
ZipDone ==
  /\ pc = "zipping"
  /\ \E zipName \in {ZipNameOf(url)} : Publish([id |-> runId], zipName)
  /\ downloadDisabled' = FALSE
  /\ progress' = 100
  /\ progressShown' = FALSE
  /\ timeTaken' = clock - t0
  /\ htmlPreview' = finalHTML
  /\ reportEl' = scanResult
  /\ prev' = IF det THEN Append(prev, [url |-> url, zip |-> zip]) ELSE prev
  /\ pc' = "idle"
  /\ UNCHANGED <<runId, offVars,
                 inflight, runVars, saved, envVars, fetchLog, refs, percent, callbacks>>

(***************************************************************************)
(* Specifications                                                          *)
(***************************************************************************)
\* the steps the program takes by itself
Step ==
  \/ ExtractInline \/ CssStart \/ CssNext \/ CssUrlFont \/ CssUrlImage \/ CssUrlSkip
  \/ CssUrlsEnd \/ CssLoopEnd \/ JsStart \/ JsNext \/ JsLoopEnd \/ ImgStart \/ ImgNext
  \/ ImgLoopEnd \/ IconStart \/ IconFetch \/ FallbackFetch \/ PreloadNext
  \/ PreloadLoopEnd \/ InlineUrlFont \/ InlineUrlSkip \/ InlineUrlsEnd \/ Build
  \/ Package

\* the steps that need an answer of the network
Respond ==
  \/ HtmlFailed \/ HtmlFetched \/ CssResponse \/ CssFontResponse \/ CssImageResponse
  \/ JsResponse \/ ImgResponse \/ IconResponse \/ FaviconResponse \/ PreloadResponse
  \/ InlineFontResponse

\* the steps of the zip serializer
Zip == (\E p \in Percents : ZipProgress(p)) \/ ZipDone

Next == AnyScan \/ DownloadClick \/ Tick \/ Step \/ Respond \/ Zip

Spec == Init /\ [][Next]_vars

\* the network answers every URL the same way each time, and the URL field is
\* not edited between scans
NextDet == FirstScan \/ Rescan \/ DownloadClick \/ Tick \/ Step \/ Respond \/ Zip

SpecDet == InitDet /\ [][NextDet]_vars

\* the event loop runs every continuation that is ready and the serializer
\* finishes; whether a response ever arrives is up to the network
FairSpec == Spec /\ WF_vars(Step) /\ WF_vars(ZipDone)

(***************************************************************************)
(* fileNameFromUrl called on its own: arg holds the arguments of the calls *)
(* made so far, result the values they returned                            *)
(***************************************************************************)
\* https://x.com
NameHostX == <<"h","t","t","p","s",":","/","/","x",".","c","o","m">>
\* x.com
NameHostBare == <<"x",".","c","o","m">>
\* assets
SegAssets == <<"a","s","s","e","t","s">>
\* app.min.js
SegAppMinJs == <<"a","p","p",".","m","i","n",".","j","s">>
\* logo
SegLogo == <<"l","o","g","o">>
\* a.b
SegDotted == <<"a",".","b">>
\* x.bcdefg
SegLongExt == <<"x",".","b","c","d","e","f","g">>
\* ?v=2
QueryV2 == <<"?","v","=","2">>

NameSegs == {SegAssets, SegAppMinJs, SegLogo, SegDotted, SegLongExt}
\* paths of up to two segments, with or without a trailing slash
NamePaths ==
  {<<>>, <<"/">>}
  \cup { <<"/">> \o s \o e : s \in NameSegs, e \in {<<>>, <<"/">>} }
  \cup { <<"/">> \o s \o <<"/">> \o t \o e : s \in NameSegs, t \in NameSegs,
                                           e \in {<<>>, <<"/">>} }
FileNameArgs ==
  { h \o p \o q : h \in {NameHostX, NameHostBare}, p \in NamePaths, q \in {<<>>, QueryV2} }

MaxNameCalls == 1

\* fileNameFromUrl(u) is called
CallFileName ==
  /\ Len(arg) < MaxNameCalls
  /\ \E u \in FileNameArgs :
       /\ arg' = Append(arg, u)
       /\ result' = Append(result, fileNameFromUrl(u))
  /\ UNCHANGED <<pc, inflight, runVars, uiVars, outVars, envVars, histVars, runId, other>>

SpecFileName == Init /\ [][CallFileName]_vars


(***************************************************************************)
(* log called on its own: arg holds the messages logged so far             *)
(***************************************************************************)
\* a data: URL with a payload of n characters
DataUrl(n) == <<"d","a","t","a",":">> \o [i \in 1..n |-> "A"]

\* messages of 45, 1021 and 2021 characters
LogArgs == {MsgStarting \o UrlA, MsgFetchingImage \o DataUrl(1000),
            MsgFetchingImage \o DataUrl(2000)}

MaxLogs == 4

\* log(msg) is called
LogCall ==
  /\ Len(arg) < MaxLogs
  /\ \E msg \in LogArgs :
       /\ arg' = Append(arg, msg)
       /\ logArea' = LogValue(logArea, msg)
  /\ UNCHANGED <<pc, inflight, runVars, progress, progressShown, statusText, timeTaken,
                 htmlPreview, reportEl, outVars, envVars, histVars, runId, other, result>>

SpecLog == Init /\ [][LogCall]_vars

(***************************************************************************)
(* Overlapping scans.  Nothing disables the scan button while processSite  *)
(* runs, so a click at one of its awaits starts a second call.  The two    *)
(* calls share the page and the globals and keep their own locals: the     *)
(* variables hold the locals of the call that runs next, other those of    *)
(* the call that waits.  The model lets at most two calls overlap.         *)
(***************************************************************************)
\* the locals of the run in the variables, with its history
Context ==
  [pc |-> pc, inflight |-> inflight, url |-> url, doc |-> doc, zip |-> zip,
   combinedCSS |-> combinedCSS, combinedJS |-> combinedJS, metaInfo |-> metaInfo,
   els |-> els, cur |-> cur, cssUrls |-> cssUrls, finalHTML |-> finalHTML,
   scanResult |-> scanResult, t0 |-> t0, fetchLog |-> fetchLog, refs |-> refs,
   statuses |-> statuses, percent |-> percent, callbacks |-> callbacks,
   runId |-> runId]

\* the scans that overlap in the model are scans of these pages
OverlapUrls == {UrlB}

\* scanBtn click (lines 492-509) at an await of a run in progress
OverlapScan(u) ==
  /\ pc \in AwaitPcs
  /\ url \in OverlapUrls
  /\ other = NoOther
  /\ other' = Context
  /\ StartRun(u)

\* the event loop resumes the call that waits, while this call waits for the
\* network or after it has returned (a call that has returned is gone); the
\* model runs the serializer of a call without steps of the other call in
\* between
Switch ==
  /\ other # NoOther
  /\ pc \in (AwaitPcs \ {"zipping"}) \cup {"idle"}
  /\ other' = IF pc = "idle" THEN NoOther ELSE Context
  /\ pc' = other.pc /\ inflight' = other.inflight /\ url' = other.url
  /\ doc' = other.doc /\ zip' = other.zip
  /\ combinedCSS' = other.combinedCSS /\ combinedJS' = other.combinedJS
  /\ metaInfo' = other.metaInfo /\ els' = other.els /\ cur' = other.cur
  /\ cssUrls' = other.cssUrls /\ finalHTML' = other.finalHTML
  /\ scanResult' = other.scanResult /\ t0' = other.t0
  /\ fetchLog' = other.fetchLog /\ refs' = other.refs /\ statuses' = other.statuses
  /\ percent' = other.percent /\ callbacks' = other.callbacks
  /\ runId' = other.runId
  /\ UNCHANGED <<arg, result, progress, progressShown, statusText, logArea,
                 timeTaken, htmlPreview, reportEl, outVars, envVars, prev>>

NextOverlap ==
  \/ AnyScan \/ (\E u \in OverlapUrls : OverlapScan(u)) \/ Switch
  \/ DownloadClick \/ Tick \/ Step \/ Respond \/ Zip

SpecOverlap == Init /\ [][NextOverlap]_vars


(***************************************************************************)
(* Properties                                                              *)
(***************************************************************************)
\* the root document of the current run arrived
RootOk == Len(statuses) >= 2 /\ statuses[2] = "Parsing HTML..."
\* the current run is over and was not ended by the failure of the root fetch
Completed == pc = "idle" /\ RootOk
\* the current run was ended by the failure of the root fetch
RootFailed == pc = "idle" /\ scans > 0 /\ ~RootOk

\* C1: within a run no URL is fetched twice, however many elements and url()
\* tokens resolve to it
C1_OneFetchPerUrl ==
  \A i, j \in DOMAIN fetchLog : fetchLog[i].url = fetchLog[j].url => i = j

\* C2: in the final document the URL attribute of every element whose fetch
\* failed still has its original value
C2_FailedRefsKeepOriginal ==
  finalHTML # NoHtml =>
    \A i \in DOMAIN refs :
      ~refs[i].ok => AttrOf(finalHTML.html, refs[i].id) = refs[i].orig

\* the folder of the archive for each kind of referencing element
KindFolder(kind) ==
  IF kind = "stylesheet" THEN CssDir
  ELSE IF kind = "script" THEN JsDir
  ELSE IF kind = "img" THEN ImagesDir
  ELSE IF kind = "preload" THEN FontsDir
  ELSE <<>>

\* C3: in the final document the URL attribute of every element whose fetch
\* succeeded is <kindFolder>/<localName> (the bare name for the icon), the
\* payload was written to the archive under that path, and the attribute is
\* not the absolute URL the reference resolved to
C3_FetchedRefsAreLocal ==
  finalHTML # NoHtml =>
    \A i \in DOMAIN refs :
      refs[i].ok =>
        /\ StartsWith(AttrOf(finalHTML.html, refs[i].id), KindFolder(refs[i].kind))
        /\ Len(AttrOf(finalHTML.html, refs[i].id)) > Len(KindFolder(refs[i].kind))
        /\ WebsiteDir \o AttrOf(finalHTML.html, refs[i].id) = refs[i].path
        /\ refs[i].path \in DOMAIN zip
        /\ ParseUrl(refs[i].resolved).ok
             => AttrOf(finalHTML.html, refs[i].id) # refs[i].resolved

\* a built document in which an icon and a stylesheet were both fetched
C3_Witness ==
  /\ finalHTML # NoHtml
  /\ \E i, j \in DOMAIN refs :
       /\ refs[i].ok /\ refs[i].kind = "icon"
       /\ refs[j].ok /\ refs[j].kind = "stylesheet" /\ refs[j].id = "e1"

\* the statuses a run shows when it passes through every phase
PhaseStatuses ==
  << "Fetching HTML...", "Parsing HTML...", "Extracting inline CSS/JS...",
     "Fetching external CSS...", "Fetching external JS...", "Fetching images...",
     "Fetching favicons & fonts (preload)...", "Building final project files...",
     "Running AI audit...", "Packaging ZIP...", "Done -- project ready: " >>

\* the elements of the final document whose fetch was attempted
Attempted == { refs[i].id : i \in DOMAIN refs }

\* C4: once the root document arrived, whatever the outcomes of the asset
\* fetches, the run never stops early: it has a next step until it is over,
\* and when it is over it went through every phase, attempted every
\* stylesheet, script, image and preload element, and returned an archive
\* with a name
C4_AssetFailuresNeverAbort ==
  /\ (RootOk /\ pc # "idle") => ENABLED (Step \/ Respond \/ Zip)
  /\ Completed =>
       /\ statuses = PhaseStatuses
       /\ Range(QueryAll(finalHTML.html, {"stylesheet", "script", "img", "preload"}))
            \subseteq Attempted
       /\ ~returned.isNull
       /\ returned.blob = [id |-> scans]
       /\ returned.zipName # <<>>

\* a completed run every asset fetch of which failed
C4_Witness ==
  /\ Completed /\ ~returned.isNull
  /\ Len(refs) >= 2
  /\ \A i \in DOMAIN refs : ~refs[i].ok

\* C5: a run whose root fetch failed ends there with null: it issued no other
\* fetch, built no archive, assigned neither lastZipBlob nor lastDomainName
\* and left the download button disabled
C5_RootFailureEndsRun ==
  /\ [](RootFailed =>
          /\ returned.isNull
          /\ Len(fetchLog) = 1
          /\ zip = EmptyZip
          /\ lastZipBlob # [id |-> scans]
          /\ downloadDisabled)
  /\ [][(pc = "awaitHtml" /\ pc' # "awaitHtml" /\ ~RootOk')
          => /\ pc' = "idle"
             /\ lastZipBlob' = lastZipBlob
             /\ lastDomainName' = lastDomainName
             /\ fetchLog' = fetchLog]_vars

\* a second run fails at the root after the first one produced an archive
C5_Witness ==
  /\ RootFailed /\ scans = 2
  /\ lastZipBlob = [id |-> 1]
  /\ lastDomainName # <<>>

\* C6: every run that was started ends (with an archive or with failure),
\* whether or not the responses to its fetches arrive
C6_EveryRunEnds == (pc # "idle") ~> (pc = "idle")

\* C7 as stated: within a run the progress value never decreases, whatever
\* percentages the serializer reports, and a completed run shows 100
C7_ProgressNeverDecreases ==
  /\ [](Completed => progress = 100)
  /\ [][scans' = scans => progress' >= progress]_vars

\* C7: within a run the progress value never decreases except when the
\* serializer reports a lower percentage than the one before; the values set
\* by the callback stay within 95..99, and a completed run shows 100
C7_ProgressMonotoneForRisingPercent ==
  /\ [](Completed => progress = 100)
  /\ [](pc = "zipping" => progress \in 95..99)
  /\ [][scans' = scans =>
          \/ progress' >= progress
          \/ pc = "zipping" /\ pc' = "zipping" /\ percent' < percent]_vars

\* the serializer reported twice, the last time 100 percent, capped to 99
C7_Witness ==
  /\ pc = "zipping" /\ callbacks >= 2
  /\ percent = 100 /\ progress = 99

ReportMdPath == WebsiteDir \o AuditDir \o ReportMdName
ReportJsonPath == WebsiteDir \o AuditDir \o ReportJsonName
IndexHtmlPath == WebsiteDir \o IndexHtmlName
ReadmePath == WebsiteDir \o ReadmeName

\* an archive with the scan date of its two audit files blanked
Undated(z) ==
  [p \in DOMAIN z |->
     IF p = ReportMdPath THEN [z[p] EXCEPT !.scanDate = 0]
     ELSE IF p = ReportJsonPath THEN [z[p] EXCEPT !.mdReport.scanDate = 0]
     ELSE z[p]]

InFolder(p, folder) ==
  /\ StartsWith(p, WebsiteDir \o folder)
  /\ Len(p) > Len(WebsiteDir \o folder)
  /\ \A i \in (Len(WebsiteDir \o folder) + 1)..Len(p) : p[i] # "/"

FixedPaths == {IndexHtmlPath, ReportMdPath, ReportJsonPath, ReadmePath}

\* C9: the archive of a completed run holds the four fixed files; every other
\* entry lies directly in css/, js/, images/ or fonts/, or is the one icon
\* file at the root
C9_ArchiveLayout ==
  Completed =>
    /\ FixedPaths \subseteq DOMAIN zip
    /\ \A p \in DOMAIN zip \ FixedPaths :
         \/ InFolder(p, CssDir) \/ InFolder(p, JsDir)
         \/ InFolder(p, ImagesDir) \/ InFolder(p, FontsDir)
         \/ InFolder(p, <<>>)
    /\ Cardinality({p \in DOMAIN zip \ FixedPaths : InFolder(p, <<>>)}) <= 1

\* Example.com-8080.zip
ClaimedZipA == <<"E","x","a","m","p","l","e",".","c","o","m","-","8","0","8","0",".",
  "z","i","p">>

\* C10 as stated: the archive of https://Example.com:8080/x is named with
\* case and port kept
C10_NameKeepsCaseAndPort ==
  (Completed /\ url = UrlA) => returned.zipName = ClaimedZipA

\* example.com.zip
ZipA == <<"e","x","a","m","p","l","e",".","c","o","m",".","z","i","p">>
\* a-b.zip
ZipB == <<"a","-","b",".","z","i","p">>
\* a-b.io.zip
ZipC == <<"a","-","b",".","i","o",".","z","i","p">>
\* site.zip
ZipD == <<"s","i","t","e",".","z","i","p">>

\* the archive names the runs of the model must produce
ExpectedZip(u) ==
  IF u = UrlA THEN ZipA ELSE IF u = UrlB THEN ZipB ELSE IF u = UrlC THEN ZipC ELSE ZipD

\* C10: the archive is named after URL.hostname (lower case, no port), after
\* the raw text before the first "/" when the URL does not parse, after
\* "site" when that is empty; every run of unsafe characters is one hyphen,
\* and ".zip" follows
C10_NameFromHostname ==
  Completed =>
    /\ returned.zipName = ExpectedZip(url)
    /\ lastDomainName = returned.zipName
    /\ \A i \in DOMAIN returned.zipName : returned.zipName[i] \notin UnsafeChars

\* the run on https://Example.com:8080/x completed
C10_Witness == Completed /\ url = UrlA /\ ~returned.isNull /\ ~downloadDisabled

\* the non-empty segments of the path of a URL that parses
SegmentsOf(u) == FilterBoolean(Split(ParseUrl(u).pathname, "/"))

\* n is the segment itself, or the segment, a dot and 1 to 5 more characters
NamedAfter(n, seg) ==
  \/ n = seg
  \/ /\ "." \notin Range(seg)
     /\ StartsWith(n, seg \o <<".">>)
     /\ Len(n) - Len(seg) - 1 \in 1..5

\* C11: fileNameFromUrl returns a non-empty single file name: "asset" for a
\* URL that does not parse or has no non-empty path segment, otherwise the
\* last non-empty path segment, to which a guessed extension of at most 5
\* characters may be appended when it has none
C11_FileNameIsLastSegment ==
  \A i \in DOMAIN arg :
    /\ result[i] # <<>>
    /\ "/" \notin Range(result[i])
    /\ IF ~ParseUrl(arg[i]).ok \/ SegmentsOf(arg[i]) = <<>>
       THEN result[i] = AssetName
       ELSE NamedAfter(result[i], SegmentsOf(arg[i])[Len(SegmentsOf(arg[i]))])


\* the text one call of log puts in front of the log
Entry(msg) == TimeString \o MsgDash \o msg \o <<"\n">>

\* the entries of the messages, the most recent first
RECURSIVE NewestFirst(_)
NewestFirst(msgs) ==
  IF msgs = <<>> THEN <<>>
  ELSE Entry(msgs[Len(msgs)]) \o NewestFirst(Upto(msgs, Len(msgs) - 1))

\* C12 as stated: the log never exceeds LOG_MAX characters and the message
\* logged last is present in full at its start
C12_LastMessageInFull ==
  /\ Len(logArea) <= LOG_MAX
  /\ arg # <<>> => StartsWith(logArea, Entry(arg[Len(arg)]))

\* C12: the log is the first LOG_MAX characters of the entries taken most
\* recent first: it never exceeds LOG_MAX characters, text is dropped from the
\* old end only, and the entry logged last is at the start, in full when it
\* has at most LOG_MAX characters and cut to its first LOG_MAX otherwise
C12_LogIsNewestPrefix ==
  /\ Len(logArea) <= LOG_MAX
  /\ logArea = IF Len(NewestFirst(arg)) > LOG_MAX THEN Upto(NewestFirst(arg), LOG_MAX)
               ELSE NewestFirst(arg)
  /\ (arg # <<>> /\ Len(Entry(arg[Len(arg)])) <= LOG_MAX)
       => StartsWith(logArea, Entry(arg[Len(arg)]))

\* the log overflowed: old text was dropped and the last entry is there in full
C12_Witness ==
  /\ Len(arg) >= 3
  /\ Len(NewestFirst(arg)) > LOG_MAX
  /\ Len(logArea) = LOG_MAX
  /\ StartsWith(logArea, Entry(arg[Len(arg)]))
  /\ Len(Entry(arg[Len(arg)])) > 1000

\* C13: within a run the document and the archive are written only by steps
\* that leave no fetch of the run in flight and issue none (the step that
\* takes a response writes what that response settles); while a fetch is in
\* flight the run waits at an await, and there is never more than one
C13_JoinBeforeMutate ==
  /\ [](inflight # NoFetch =>
          /\ pc \in AwaitPcs \ {"zipping"}
          /\ fetchLog # <<>> /\ fetchLog[Len(fetchLog)] = inflight)
  /\ [][(scans' = scans /\ (doc' # doc \/ zip' # zip))
          => /\ inflight' = NoFetch
             /\ fetchLog' = fetchLog
             /\ pc \in AwaitPcs => inflight # NoFetch]_vars
  /\ [][(scans' = scans /\ inflight # NoFetch /\ inflight' # NoFetch)
          => (inflight' = inflight /\ doc' = doc /\ zip' = zip)]_vars

\* an image was fetched and its element rewritten, and no fetch is in flight
C13_Witness ==
  /\ pc = "imgLoop" /\ inflight = NoFetch
  /\ Len(fetchLog) >= 2
  /\ \E i \in DOMAIN refs :
       /\ refs[i].kind = "img" /\ refs[i].ok
       /\ AttrOf(doc, refs[i].id) # refs[i].orig
       /\ refs[i].path \in DOMAIN zip

\* the elements of a document that are stylesheet links to css/inline-styles.css
\* (scripts with the source js/inline-scripts.js)
LinksToInlineStyles(d) ==
  SelectSeq(AllEls(d), LAMBDA e : e.kind = "stylesheet" /\ e.url = HrefInlineStyles)
ScriptsToInlineScripts(d) ==
  SelectSeq(AllEls(d), LAMBDA e : e.kind = "script" /\ e.url = HrefInlineScripts)

InlineStylesPath == WebsiteDir \o CssDir \o InlineStylesName
InlineScriptsPath == WebsiteDir \o JsDir \o InlineScriptsName

\* C14: after a completed run the document holds no style element and no
\* script without a source; it holds exactly one stylesheet link to
\* css/inline-styles.css iff the inline CSS of the page is non-blank (one
\* script to js/inline-scripts.js iff the inline JS is), and the archive then
\* holds under that path the texts of the removed blocks, each followed by a
\* blank line, in document order, whatever the fetches gave
C14_InlineCodeMoved ==
  Completed =>
    /\ QueryAll(finalHTML.html, {"style", "inlineScript"}) = <<>>
    /\ Len(LinksToInlineStyles(finalHTML.html))
         = IF Trim(InlineText(SiteOf(url), {"style"})) # <<>> THEN 1 ELSE 0
    /\ Len(ScriptsToInlineScripts(finalHTML.html))
         = IF Trim(InlineText(SiteOf(url), {"inlineScript"})) # <<>> THEN 1 ELSE 0
    /\ Trim(InlineText(SiteOf(url), {"style"})) # <<>> =>
         /\ InlineStylesPath \in DOMAIN zip
         /\ zip[InlineStylesPath] = InlineText(SiteOf(url), {"style"})
    /\ Trim(InlineText(SiteOf(url), {"inlineScript"})) # <<>> =>
         /\ InlineScriptsPath \in DOMAIN zip
         /\ zip[InlineScriptsPath] = InlineText(SiteOf(url), {"inlineScript"})

\* the extension of an asset URL: what follows its last dot, up to a "?", in
\* lower case
TokenExt(u) ==
  LET a == From(u, LastIndexOf(u, ".") + 1)
      q == IndexOf(a, "?")
  IN  ToLowerCase(IF q = 0 THEN a ELSE Upto(a, q - 1))

\* the step that handles the next url() token of the loop: a font is fetched,
\* an image is fetched when the loop fetches images, anything else is passed
\* over without a fetch and without an archive entry
TokenStep(loop, base, awaitFont, awaitImage, images) ==
  (pc = loop /\ cssUrls # <<>> /\ <<pc, cssUrls>>' # <<pc, cssUrls>>) =>
    LET u == resolveUrl(base, Head(cssUrls))
    IN  IF TokenExt(u) \in FontExts
        THEN pc' = awaitFont /\ inflight' = [url |-> u, method |-> "blob"]
        ELSE IF images /\ TokenExt(u) \in ImageExts
        THEN pc' = awaitImage /\ inflight' = [url |-> u, method |-> "blob"]
        ELSE /\ pc' = loop /\ inflight' = NoFetch /\ fetchLog' = fetchLog
             /\ zip' = zip /\ cssUrls' = Tail(cssUrls)

\* the step that takes the response to the fetch of a token: a blob that
\* arrived is stored under the folder and nothing else changes in the
\* archive; after a failure (logged) the archive is as before
TokenStored(await, folder) ==
  (pc = await /\ pc' # await) =>
    IF logArea' # logArea THEN zip' = zip
    ELSE \E p \in DOMAIN zip' :
           /\ StartsWith(p, WebsiteDir \o folder)
           /\ ~zip'[p].isNull
           /\ \A q \in DOMAIN zip' \ {p} : q \in DOMAIN zip /\ zip'[q] = zip[q]

\* C15 as stated: the url() tokens of fetched stylesheets and of the inline
\* CSS are treated alike: fonts to fonts/, images to images/, others skipped
C15_TokensTreatedAlike ==
  /\ [][TokenStep("cssUrlLoop", cur.resolved, "awaitCssFont", "awaitCssImage", TRUE)]_vars
  /\ [][TokenStep("inlineUrlLoop", url, "awaitInlineFont", "awaitInlineImage", TRUE)]_vars

\* C15: the url() tokens of a fetched stylesheet are fetched and stored under
\* fonts/ (font extensions) or images/ (image extensions) and passed over
\* otherwise; of the tokens of the inline CSS only the fonts are fetched and
\* stored, images are passed over like any other extension
C15_InlineTokensFontsOnly ==
  /\ [][TokenStep("cssUrlLoop", cur.resolved, "awaitCssFont", "awaitCssImage", TRUE)]_vars
  /\ [][TokenStep("inlineUrlLoop", url, "awaitInlineFont", "awaitInlineImage", FALSE)]_vars
  /\ [][TokenStored("awaitCssFont", FontsDir)]_vars
  /\ [][TokenStored("awaitCssImage", ImagesDir)]_vars
  /\ [][TokenStored("awaitInlineFont", FontsDir)]_vars

\* the inline CSS named a font and an image: the font was fetched and stored,
\* the image token was passed over (the last fetch is still the font's)
C15_Witness ==
  /\ pc = "inlineUrlLoop" /\ cssUrls = <<>>
  /\ \E t \in Range(extractUrlsFromCss(combinedCSS)) :
       TokenExt(resolveUrl(url, t)) \in ImageExts
  /\ \E t \in Range(extractUrlsFromCss(combinedCSS)) :
       /\ TokenExt(resolveUrl(url, t)) \in FontExts
       /\ fetchLog[Len(fetchLog)].url = resolveUrl(url, t)
       /\ (WebsiteDir \o FontsDir \o fileNameFromUrl(resolveUrl(url, t))) \in DOMAIN zip

\* C16: once index.html is serialized the document is not written again in
\* the run: the stored index.html is the document as it stands, the scan was
\* run on that document and on the final asset inventory, and the two audit
\* files hold its result
C16_AuditOfFinalDocument ==
  /\ [](finalHTML # NoHtml =>
          /\ finalHTML = [doctype |-> TRUE, html |-> doc]
          /\ zip[IndexHtmlPath] = finalHTML
          /\ scanResult
               = runHeuristicScan(zip[IndexHtmlPath].html, url, metaInfo,
                                  scanResult.mdReport.scanDate)
          /\ zip[ReportJsonPath] = scanResult
          /\ zip[ReportMdPath] = scanResult.mdReport)
  /\ [][(scans' = scans /\ finalHTML # NoHtml)
          => (doc' = doc /\ metaInfo' = metaInfo /\ finalHTML' = finalHTML
              /\ scanResult' = scanResult)]_vars
  /\ [][(scans' = scans /\ doc' # doc) => finalHTML = NoHtml]_vars

\* a packaged run whose document was rewritten (an image and the synthesized
\* stylesheet link) before it was serialized and scanned
C16_Witness ==
  /\ pc = "zipping" /\ finalHTML # NoHtml
  /\ scanResult.images >= 1
  /\ \E i \in DOMAIN refs : refs[i].kind = "img" /\ refs[i].ok
  /\ \E i \in DOMAIN refs : refs[i].id = "link"

\* C17: the step that takes the response of a failed element fetch leaves
\* the archive as it was
C17_FailedFetchKeepsArchive ==
  [][(scans' = scans /\ Len(refs') = Len(refs) + 1 /\ ~refs'[Len(refs')].ok)
       => zip' = zip]_vars

\* the ids of the elements a document holds
IdsOf(d) == { AllEls(d)[i].id : i \in DOMAIN AllEls(d) }

\* C18: the run fetches nothing for the link and the script it synthesizes
\* itself, and the inventory lists no more stylesheets and scripts than the
\* fetched page holds
C18_SynthesizedNotFetched ==
  /\ \A i \in DOMAIN refs : refs[i].id \in IdsOf(SiteOf(url))
  /\ Len(metaInfo.cssFiles) <= Len(QueryAll(SiteOf(url), {"stylesheet"}))
  /\ Len(metaInfo.jsFiles) <= Len(QueryAll(SiteOf(url), {"script"}))
  /\ (inflight # NoFetch /\ pc \in {"awaitCss", "awaitJs"})
       => cur.id \in IdsOf(SiteOf(url))

\* C19: while the download button is enabled no scan is in progress and the
\* stored blob and name are those of the scan started last
C19_EnabledMeansLatestResult ==
  ~downloadDisabled =>
    /\ pc = "idle" /\ other = NoOther
    /\ lastZipBlob = [id |-> scans]
    /\ lastDomainName = ZipNameOf(url)

\* the elements of the final document whose URL attribute the run wrote: the
\* elements the fetched page does not hold, and those whose attribute differs
\* from the page's
WrittenAttrs ==
  { e \in Range(AllEls(finalHTML.html)) :
      /\ e.kind \in {"stylesheet", "script", "img", "icon", "preload"}
      /\ \/ e.id \notin IdsOf(SiteOf(url))
         \/ e.url # AttrOf(SiteOf(url), e.id) }

\* C20: after a completed run every local path written into an attribute of
\* the stored document names an entry of the archive under website/
C20_LocalPathsExist ==
  Completed => \A e \in WrittenAttrs : (WebsiteDir \o e.url) \in DOMAIN zip

\* a completed run with a synthesized script element, a stylesheet whose fetch
\* failed and an icon that was fetched
C20_Witness ==
  /\ Completed
  /\ "script" \in IdsOf(finalHTML.html)
  /\ \E i \in DOMAIN refs : refs[i].kind = "stylesheet" /\ ~refs[i].ok
  /\ \E i \in DOMAIN refs : refs[i].kind = "icon" /\ refs[i].ok
  /\ Cardinality(WrittenAttrs) >= 4

=============================================================================
